---- MODULE Spec2Model ----
(***************************************************************************)
(* Model of the settings crate (src/src/lib.rs): Settings<T>::load,        *)
(* load_from, save, save_to and the Deref/DerefMut access to the wrapped    *)
(* value, over a small file system, process environment and the Config     *)
(* type of the crate's documentation test.                                 *)
(***************************************************************************)
EXTENDS Integers, Sequences, FiniteSets, TLC

\* ---------------------------------------------------------------- bounds
\* Capacity of the BufWriter in tokens (std's default is 8192 bytes).
BufCap == 4
\* Disk faults range over 0..MaxFault: 0 is no fault, k > 0 makes the k-th
\* write to the underlying file, and every later one, fail.
MaxFault == 3
\* Number of operations a run performs on the handle.
MaxOps == 3

\* ---------------------------------------------------------------- paths
FILE_NAME == "settings.ron"

\* PathBuf::join
Join(dir, name) == <<dir, name>>

\* Directories of the modelled file system; "gone" does not exist on disk.
Dirs == {"cwd", "cfg", "tmp", "gone"}
ExistingDirs == {"cwd", "cfg", "tmp"}

Paths == {Join("cwd", FILE_NAME), Join("cfg", FILE_NAME),
          Join("tmp", "alt.ron"), Join("gone", "alt.ron")}

\* Stands for "no path" in the records below.
NoPath == <<>>

\* ---------------------------------------------------------------- values
\* The caller's type T: struct Config { foo: String, bar: u32 }.
Values == {[foo |-> "", bar |-> 0], [foo |-> "Hello World", bar |-> 42]}

\* Option<X> as a set with at most one element.
None == {}
Some(x) == {x}
Unwrap(o) == CHOOSE x \in o : TRUE

\* ---------------------------------------------------------------- RON text
\* A file's contents are a sequence of tokens, all records of one shape.
Tok(k, s, n) == [k |-> k, s |-> s, n |-> n]
Punct(k) == Tok(k, "", 0)
Ident(s) == Tok("ident", s, 0)
Str(s) == Tok("str", s, 0)
Num(n) == Tok("num", "", n)

\* ron::ser::to_writer_pretty with PrettyConfig::default().struct_names(true):
\* Config(
\*     foo: "..",
\*     bar: ..,
\* )
ToRon(v) ==
    << Ident("Config"), Punct("("),
       Ident("foo"), Punct(":"), Str(v.foo), Punct(","),
       Ident("bar"), Punct(":"), Num(v.bar), Punct(","),
       Punct(")") >>

\* Result of the parser: the parsed value or a Deserialize error.
ParseErr == [ok |-> FALSE, value |-> None]
ParseOk(v) == [ok |-> TRUE, value |-> Some(v)]

Drop(s, n) == SubSeq(s, n + 1, Len(s))

\* The fields of the struct, after the opening parenthesis: each field is
\* name ':' literal, fields are separated by commas, a trailing comma is
\* allowed, a field may appear once, and nothing may follow the ')'.
RECURSIVE ParseFields(_, _, _)
ParseFields(s, foo, bar) ==
    IF Len(s) = 0 THEN ParseErr
    ELSE IF s[1] = Punct(")") THEN
        IF Len(s) = 1 /\ foo # None /\ bar # None
        THEN ParseOk([foo |-> Unwrap(foo), bar |-> Unwrap(bar)])
        ELSE ParseErr
    ELSE IF Len(s) < 4 \/ s[2] # Punct(":") THEN ParseErr
    ELSE LET rest == IF s[4] = Punct(",") THEN Drop(s, 4) ELSE Drop(s, 3)
             closes == s[4] = Punct(",") \/ s[4] = Punct(")")
         IN  IF ~closes THEN ParseErr
             ELSE IF s[1] = Ident("foo") /\ s[3].k = "str" /\ foo = None
                  THEN ParseFields(rest, Some(s[3].s), bar)
             ELSE IF s[1] = Ident("bar") /\ s[3].k = "num" /\ bar = None
                  THEN ParseFields(rest, foo, Some(s[3].n))
             ELSE ParseErr

\* ron::de::from_reader::<Config>: an optional struct name, which must be
\* Config when present, then the parenthesised fields.
FromReader(content) ==
    LET body == IF Len(content) > 0 /\ content[1].k = "ident"
                THEN IF content[1] = Ident("Config") THEN Drop(content, 1) ELSE <<>>
                ELSE content
    IN  IF Len(body) = 0 \/ body[1] # Punct("(") THEN ParseErr
        ELSE ParseFields(Drop(body, 1), None, None)

\* ---------------------------------------------------------------- file system
\* A file: whether it exists, whether this process may open it, its contents.
Absent == [exists |-> FALSE, access |-> FALSE, content |-> <<>>]
FileOf(content) == [exists |-> TRUE, access |-> TRUE, content |-> content]
Locked(content) == [exists |-> TRUE, access |-> FALSE, content |-> content]

\* Path::exists
Exists(fs, path) == fs[path].exists

\* File::open succeeds
CanOpen(fs, path) == fs[path].exists /\ fs[path].access

\* CanCreate as if save_to created the missing parent directories.
CanCreateMakingDirs(fs, path) == fs[path].exists => fs[path].access

\* File::create succeeds: the parent directory exists and an existing file
\* may be opened for writing.
CanCreate(fs, path) ==
    /\ path[1] \in ExistingDirs
    /\ fs[path].exists => fs[path].access

\* ---------------------------------------------------------------- errors and results
ErrorKinds == {"Open", "Deserialize", "Serialize", "NotFound"}

\* Result<Settings<T>, Error> and Result<(), Error>: res is "Ok" or the
\* error's variant, errPath the path an Open error carries, handle the
\* Settings value of an Ok(Settings).
Ok(handle) == [res |-> "Ok", errPath |-> NoPath, handle |-> handle]
Err(kind, path) == [res |-> kind, errPath |-> path, handle |-> None]

\* struct Settings<T> { path, inner }
Settings(path, inner) == [path |-> path, inner |-> inner]

\* LoadFrom as if a document that does not parse yielded a default value.
LoadFromDefaulting(fs, path) ==
    IF ~(fs[path].exists /\ fs[path].access) THEN Err("Open", path)
    ELSE LET parsed == FromReader(fs[path].content)
         IN  Ok(Some(Settings(path, IF parsed.ok THEN Unwrap(parsed.value)
                                    ELSE [foo |-> "", bar |-> 0])))

\* ---------------------------------------------------------------- load_from
LoadFrom(fs, path) ==
    IF ~CanOpen(fs, path) THEN Err("Open", path)
    ELSE LET parsed == FromReader(fs[path].content)
         IN  IF ~parsed.ok THEN Err("Deserialize", NoPath)
             ELSE Ok(Some(Settings(path, Unwrap(parsed.value))))

\* ---------------------------------------------------------------- load
Applications == {"app"}

\* str::to_uppercase on the application names of the model
ToUppercase(s) == IF s = "app" THEN "APP" ELSE s

\* format!("{}_CONFIG_PATH", application.to_uppercase())
EnvName(application) == <<ToUppercase(application), "_CONFIG_PATH">>

EnvNames == {<<"APP", "_CONFIG_PATH">>, <<"app", "_CONFIG_PATH">>}

\* Candidates with the working directory probed before the environment.
CandidatesCwdFirst(env, cwd, projectDirs, application) ==
    << {Join(dir, FILE_NAME) : dir \in cwd},
       env[EnvName(application)],
       {Join(dir, FILE_NAME) : dir \in projectDirs} >>

\* The candidate list of load, each an Option<PathBuf>.
Candidates(env, cwd, projectDirs, application) ==
    << env[EnvName(application)],
       {Join(dir, FILE_NAME) : dir \in cwd},
       {Join(dir, FILE_NAME) : dir \in projectDirs} >>

\* Iterator::flatten over the Options
Flatten(opts) ==
    LET some == SelectSeq(opts, LAMBDA o : o # None)
    IN  [i \in 1..Len(some) |-> Unwrap(some[i])]

\* Iterator::find(|path| path.exists())
Find(fs, paths) ==
    LET hits == {i \in 1..Len(paths) : Exists(fs, paths[i])}
    IN  IF hits = {} THEN None
        ELSE Some(paths[CHOOSE i \in hits : \A j \in hits : i <= j])

\* Load as if it tried each existing candidate until one loads.
LoadFallingBack(env, cwd, projectDirs, fs, application) ==
    LET paths == Flatten(Candidates(env, cwd, projectDirs, application))
        found == Find(fs, paths)
        good == {i \in 1..Len(paths) :
                    Exists(fs, paths[i]) /\ LoadFrom(fs, paths[i]).res = "Ok"}
    IN  IF good # {} THEN LoadFrom(fs, paths[CHOOSE i \in good : \A j \in good : i <= j])
        ELSE IF found # None THEN LoadFrom(fs, Unwrap(found))
        ELSE Err("NotFound", NoPath)

\* Load as if, with no candidate on disk, it opened the last candidate anyway.
LoadOpeningLast(env, cwd, projectDirs, fs, application) ==
    LET paths == Flatten(Candidates(env, cwd, projectDirs, application))
        found == Find(fs, paths)
    IN  IF found # None THEN LoadFrom(fs, Unwrap(found))
        ELSE IF Len(paths) > 0 THEN LoadFrom(fs, paths[Len(paths)])
        ELSE Err("NotFound", NoPath)

Load(env, cwd, projectDirs, fs, application) ==
    LET found == Find(fs, Flatten(Candidates(env, cwd, projectDirs, application)))
    IN  IF found # None THEN LoadFrom(fs, Unwrap(found))
        ELSE Err("NotFound", NoPath)

\* ---------------------------------------------------------------- save_to
\* BufWriter<File>: buf the buffered tokens, file the tokens that reached the
\* file, writes the number of writes issued to the file, ok the outcome of the
\* last write_all.
NewWriter == [buf |-> <<>>, file |-> <<>>, writes |-> 0, ok |-> TRUE]

\* A write to the underlying file; fails from the fault-th write on.
InnerWrite(w, data, fault) ==
    LET n == w.writes + 1
    IN  IF fault # 0 /\ n >= fault
        THEN [w EXCEPT !.writes = n, !.ok = FALSE]
        ELSE [w EXCEPT !.writes = n, !.file = w.file \o data, !.ok = TRUE]

\* BufWriter::flush_buf: on failure the tokens stay in the buffer.
FlushBuf(w, fault) ==
    IF Len(w.buf) = 0 THEN [w EXCEPT !.ok = TRUE]
    ELSE LET r == InnerWrite(w, w.buf, fault)
         IN  IF r.ok THEN [r EXCEPT !.buf = <<>>] ELSE r

\* BufWriter::write_all
WriteAll(w, data, fault) ==
    IF Len(data) < BufCap - Len(w.buf)
    THEN [w EXCEPT !.buf = w.buf \o data, !.ok = TRUE]
    ELSE LET f == IF Len(data) > BufCap - Len(w.buf)
                  THEN FlushBuf(w, fault) ELSE [w EXCEPT !.ok = TRUE]
         IN  IF ~f.ok THEN f
             ELSE IF Len(data) >= BufCap THEN InnerWrite(f, data, fault)
             ELSE [f EXCEPT !.buf = f.buf \o data]

\* The serializer writes its output token by token and stops at the first
\* failed write.
RECURSIVE WriteTokens(_, _, _)
WriteTokens(w, toks, fault) ==
    IF Len(toks) = 0 THEN w
    ELSE LET r == WriteAll(w, <<toks[1]>>, fault)
         IN  IF ~r.ok THEN r ELSE WriteTokens(r, Drop(toks, 1), fault)

\* impl Drop for BufWriter: flushes the buffer and ignores the outcome.
DropWriter(w, fault) == FlushBuf(w, fault).file

\* save_to's inner function: the result and the file system it leaves.
SaveToInner(fs, value, path, fault) ==
    IF ~CanCreate(fs, path) THEN [result |-> Err("Open", path), fs |-> fs]
    ELSE LET w == WriteTokens(NewWriter, ToRon(value), fault)
             written == DropWriter(w, fault)
         IN  [result |-> IF w.ok THEN Ok(None) ELSE Err("Serialize", NoPath),
              fs |-> [fs EXCEPT ![path] = FileOf(written)]]

SaveTo(fs, self, path, fault) == SaveToInner(fs, self.inner, path, fault)

Save(fs, self, fault) == SaveTo(fs, self, self.path, fault)

\* ---------------------------------------------------------------- state
VARIABLES
    fs,           \* the file system: Paths -> file
    env,          \* the process environment: EnvNames -> Option<path>
    cwd,          \* env::current_dir().ok(): Option<dir>
    projectDirs,  \* ProjectDirs::from(..) and its config_dir(): Option<dir>
    settings,     \* the caller's Settings<Config> handle: Option<Settings>
    last,         \* the last call: operation, argument, result
    ops           \* number of calls made

vars == <<fs, env, cwd, projectDirs, settings, last, ops>>

Call(op, target, result) ==
    [op |-> op, target |-> target, res |-> result.res, errPath |-> result.errPath]

\* Contents a settings file may hold before the program runs: nothing on
\* disk, a well-formed document, a malformed one, a file that cannot be opened.
Malformed == <<Ident("Config"), Punct("("), Ident("foo"), Punct(":")>>

Original == [foo |-> "", bar |-> 0]

\* The candidate locations in the working and the config directory start in
\* any of the four conditions, the other locations absent or well-formed.
InitFiles(path) ==
    IF path[1] \notin ExistingDirs THEN {Absent}
    ELSE IF path[2] = FILE_NAME
    THEN {Absent, FileOf(ToRon(Original)), FileOf(Malformed), Locked(ToRon(Original))}
    ELSE {Absent, FileOf(ToRon(Original))}

\* The variable load reads is unset or names a path; no other variable is set.
InitEnv ==
    {[name \in EnvNames |-> IF name = <<"APP", "_CONFIG_PATH">> THEN value ELSE None] :
        value \in {None, Some(Join("tmp", "alt.ron")), Some(Join("gone", "alt.ron"))}}

Init ==
    /\ fs \in [Paths -> UNION {InitFiles(p) : p \in Paths}]
    /\ \A p \in Paths : fs[p] \in InitFiles(p)
    /\ env \in InitEnv
    /\ cwd \in {None, Some("cwd")}
    /\ projectDirs \in {None, Some("cfg")}
    /\ settings = None
    /\ last = [op |-> "init", target |-> NoPath, res |-> "Ok", errPath |-> NoPath]
    /\ ops = 0

\* let settings = Settings::<Config>::load(qualifier, organization, application)
DoLoad ==
    /\ ops < MaxOps
    /\ \E application \in Applications :
         LET r == Load(env, cwd, projectDirs, fs, application)
         IN  /\ settings' = r.handle
             /\ last' = Call("load", NoPath, r)
    /\ ops' = ops + 1
    /\ UNCHANGED <<fs, env, cwd, projectDirs>>

\* let settings = Settings::<Config>::load_from(path)
DoLoadFrom ==
    /\ ops < MaxOps
    /\ \E path \in Paths :
         LET r == LoadFrom(fs, path)
         IN  /\ settings' = r.handle
             /\ last' = Call("load_from", path, r)
    /\ ops' = ops + 1
    /\ UNCHANGED <<fs, env, cwd, projectDirs>>

\* DerefMut: the caller assigns the fields of the wrapped value.
DerefMut(self, value) == [self EXCEPT !.inner = value]

DoMutate ==
    /\ ops < MaxOps
    /\ settings # None
    /\ \E value \in Values :
         /\ value # Unwrap(settings).inner
         /\ settings' = Some(DerefMut(Unwrap(settings), value))
    /\ last' = [op |-> "mutate", target |-> NoPath, res |-> "Ok", errPath |-> NoPath]
    /\ ops' = ops + 1
    /\ UNCHANGED <<fs, env, cwd, projectDirs>>

\* settings.save()
DoSave ==
    /\ ops < MaxOps
    /\ settings # None
    /\ \E fault \in 0..MaxFault :
         LET self == Unwrap(settings)
             r == Save(fs, self, fault)
         IN  /\ fs' = r.fs
             /\ last' = Call("save", self.path, r.result)
    /\ ops' = ops + 1
    /\ UNCHANGED <<env, cwd, projectDirs, settings>>

\* DoSaveTo as if save_to stored its target in the handle.
DoSaveToStoringPath ==
    /\ ops < MaxOps
    /\ settings # None
    /\ \E path \in Paths, fault \in 0..MaxFault :
         LET r == SaveTo(fs, Unwrap(settings), path, fault)
         IN  /\ fs' = r.fs
             /\ last' = Call("save_to", path, r.result)
             /\ settings' = Some([Unwrap(settings) EXCEPT !.path = path])
    /\ ops' = ops + 1
    /\ UNCHANGED <<env, cwd, projectDirs>>

\* settings.save_to(path)
DoSaveTo ==
    /\ ops < MaxOps
    /\ settings # None
    /\ \E path \in Paths, fault \in 0..MaxFault :
         LET r == SaveTo(fs, Unwrap(settings), path, fault)
         IN  /\ fs' = r.fs
             /\ last' = Call("save_to", path, r.result)
    /\ ops' = ops + 1
    /\ UNCHANGED <<env, cwd, projectDirs, settings>>

Next == DoLoad \/ DoLoadFrom \/ DoMutate \/ DoSave \/ DoSaveTo

Spec == Init /\ [][Next]_vars

\* ---------------------------------------------------------------- properties
\* The resolution order as the documentation of load words it: the path in
\* APP_CONFIG_PATH, settings.ron in the working directory, settings.ron in the
\* config directory; the first of them that is on disk, if any.
FirstOnDisk ==
    LET fromEnv == env[<<"APP", "_CONFIG_PATH">>]
        fromCwd == {<<dir, "settings.ron">> : dir \in cwd}
        fromCfg == {<<dir, "settings.ron">> : dir \in projectDirs}
        onDisk(o) == \E p \in o : fs[p].exists
    IN  IF onDisk(fromEnv) THEN fromEnv
        ELSE IF onDisk(fromCwd) THEN fromCwd
        ELSE IF onDisk(fromCfg) THEN fromCfg
        ELSE None

\* The file at path can be opened and holds a document of value v.
Holds(path, v) ==
    /\ fs[path].exists /\ fs[path].access
    /\ FromReader(fs[path].content) = ParseOk(v)

IsSave(call) == call.op \in {"save", "save_to"}

\* C1: load reads from the first candidate on disk, in the order environment
\* variable, working directory, config directory: a successful load returns
\* a handle whose path is that candidate and whose value is the one its file
\* holds, and load succeeds whenever that file holds a value.
C1_ResolutionOrder ==
    last.op = "load" =>
        /\ last.res = "Ok" =>
             /\ FirstOnDisk # None
             /\ \E h \in settings :
                  /\ settings = {h}
                  /\ h.path = Unwrap(FirstOnDisk)
                  /\ Holds(h.path, h.inner)
        /\ \A p \in FirstOnDisk : \A v \in Values :
             Holds(p, v) => last.res = "Ok" /\ settings = {Settings(p, v)}

\* C1 witness: the variable names a file on disk, settings.ron is in the
\* working directory too, and load returned the handle of the former.
C1_Witness ==
    /\ last.op = "load" /\ last.res = "Ok"
    /\ env[<<"APP", "_CONFIG_PATH">>] = {<<"tmp", "alt.ron">>}
    /\ cwd = {"cwd"} /\ fs[<<"cwd", "settings.ron">>].exists
    /\ \E h \in settings : h.path = <<"tmp", "alt.ron">>

\* C4: with no candidate on disk load fails with NotFound, returns no handle
\* and leaves the file system as it was.
C4_NotFound ==
    [][(last'.op = "load" /\ FirstOnDisk = None) =>
          /\ last'.res = "NotFound"
          /\ settings' = None
          /\ fs' = fs]_vars

\* C4 witness: the variable names a missing file, nothing is on disk at the
\* other two candidates, and load returned NotFound.
C4_Witness ==
    /\ last.op = "load" /\ last.res = "NotFound"
    /\ env[<<"APP", "_CONFIG_PATH">>] = {<<"gone", "alt.ron">>}
    /\ cwd # None /\ projectDirs # None
    /\ \A p \in Paths : p[2] = "settings.ron" => ~fs[p].exists

C7_MissingParent ==
    [][(last'.op = "save_to" /\ last'.target[1] \notin {"cwd", "cfg", "tmp"}) =>
          /\ last'.res = "Open"
          /\ last'.errPath = last'.target
          /\ fs' = fs
          /\ settings' = settings /\ settings # None]_vars

\* C7 witness: save_to on a path under the missing directory returned Open.
C7_Witness ==
    /\ last.op = "save_to" /\ last.target = <<"gone", "alt.ron">>
    /\ last.res = "Open"
    /\ settings # None

\* C8: load_from(p) returns a handle with path p and the value the file
\* holds, or Open carrying p when the file cannot be opened, or Deserialize
\* when it opens and does not parse; an error comes with no handle.
C8_LoadFromAllOrNothing ==
    last.op = "load_from" =>
        LET p == last.target
            opens == fs[p].exists /\ fs[p].access
        IN  \/ /\ last.res = "Ok"
               /\ \E h \in settings :
                    settings = {h} /\ h.path = p /\ h.inner \in Values
                    /\ Holds(p, h.inner)
            \/ /\ last.res = "Open" /\ last.errPath = p
               /\ ~opens
               /\ settings = None
            \/ /\ last.res = "Deserialize"
               /\ opens /\ \A v \in Values : ~Holds(p, v)
               /\ settings = None

\* C8 witness: load_from of a file that opens and does not parse returned
\* Deserialize and no handle.
C8_Witness ==
    /\ last.op = "load_from" /\ last.res = "Deserialize"
    /\ fs[last.target].access /\ Len(fs[last.target].content) > 0
    /\ settings = None

\* C10: load returns what load_from returns on the first candidate on disk,
\* without falling back to a later one, and NotFound only when none is on disk.
C10_NoFallback ==
    last.op = "load" =>
        /\ last.res = "NotFound" <=> FirstOnDisk = None
        /\ \A p \in FirstOnDisk :
             LET opens == fs[p].exists /\ fs[p].access
                 parses == \E v \in Values : Holds(p, v)
             IN  /\ ~opens => last.res = "Open" /\ last.errPath = p /\ settings = None
                 /\ (opens /\ ~parses) => last.res = "Deserialize" /\ settings = None
                 /\ (opens /\ parses) => last.res = "Ok"

\* C10 witness: settings.ron in the working directory does not parse, the one
\* in the config directory holds a value, and load returned Deserialize.
C10_Witness ==
    /\ last.op = "load" /\ last.res = "Deserialize"
    /\ FirstOnDisk = {<<"cwd", "settings.ron">>}
    /\ projectDirs = {"cfg"}
    /\ \E v \in Values : Holds(<<"cfg", "settings.ron">>, v)

\* C9 as stated: whenever save or save_to returns Ok, the destination file
\* holds the complete serialization of the handle's value.
C9_OkMeansWritten ==
    (IsSave(last) /\ last.res = "Ok") =>
        \A h \in settings : fs[last.target] = FileOf(ToRon(h.inner))

\* C2 as stated: a load_from(p) that follows a successful save_to(p) returns
\* a handle whose value is the one that was saved.
C2_RoundTrip ==
    [][(/\ last.op = "save_to" /\ last.res = "Ok"
        /\ last'.op = "load_from" /\ last'.target = last.target) =>
          /\ last'.res = "Ok"
          /\ \A h \in settings : \E g \in settings' : g.inner = h.inner]_vars

\* C3 as stated: mutating the value leaves the files as they are, and after
\* a successful save() a load_from of the stored path returns the handle's
\* current value.
C3_MutateThenPersist ==
    [][/\ last'.op = "mutate" => fs' = fs
       /\ (last'.op = "save" /\ last'.res = "Ok") =>
             \A h \in settings' : LoadFrom(fs', h.path) = Ok(Some(h))]_vars

\* C5 as stated: save() writes to the location most recently used, so right
\* after a successful save_to(q) it writes to q.
C5_SaveUsesLastTarget ==
    [][(last.op = "save_to" /\ last.res = "Ok" /\ last'.op = "save") =>
          /\ last'.target = last.target
          /\ \A p \in Paths \ {last.target} : fs'[p] = fs[p]]_vars

====
